---- MODULE Spec2Model ----
(***************************************************************************)
(* Model of ee/api/chalicelib/core/sessions_insights.py: the period split  *)
(* (__get_two_values), the time-step resolution (__handle_timestep), the   *)
(* errors and network analytics and the report builder (fetch_selected).   *)
(*                                                                         *)
(* Conventions.  A row of a query response is a record indexed by column   *)
(* name (the source indexes a list by columns.index(name), which selects   *)
(* the same cell).  Only the columns the code reads are kept: 'sources' of *)
(* the errors query and 'sessions'/'avg_duration' of the network query are *)
(* never read by a statement that reaches the result.  A Python call       *)
(* either returns a value or raises; both are a record                     *)
(* [raised, exc, value].  Python floats are exact rationals [num, den].    *)
(* np.array(table) of rows that mix datetime, int and str cells is an      *)
(* object array, so sums and quotients follow Python's int/str rules.      *)
(***************************************************************************)
EXTENDS Integers, Sequences, FiniteSets, TLC

\* ------------------------------------------------------------------ bounds
MaxRows == 4        \* longest response of a stand-alone analytic call
MaxFetchRows == 2   \* longest errors/network response inside fetch_selected
MaxRawRows == 1     \* longest rage/resources response inside fetch_selected

\* --------------------------------------------------------- input domains
Timestamps == {0, 1, 2}            \* bucket timestamps hh, larger = later
SessionCounts == {0, 1}            \* count(T2.session_id)
ErrorNames == {"A", "B", "C"}         \* T2.name
Hosts == {"h1", "h2"}              \* T2.url_host
Paths == {"/a", "/b"}              \* T2.url_path
SuccessRates == {0, 1}             \* avg(T2.success), in units of 100%
CpuValues == {1}                   \* avg(T2.avg_cpu)
MemoryValues == {1}                \* avg(T2.avg_used_js_heap_size)

PyStr(s) == [type |-> "str", s |-> s, n |-> 0]
PyInt(n) == [type |-> "int", s |-> "", n |-> n]
PyFloat(n) == [type |-> "float", s |-> "", n |-> n]

\* the time_step arguments tried: the three tokens, another string, integers
\* of each sign, and a number that is not an int
TimeSteps ==
    {PyStr("hour"), PyStr("day"), PyStr("week"), PyStr("fortnight"),
     PyInt(-1), PyInt(0), PyInt(15), PyFloat(15)}

FetchTimeSteps == {PyStr("hour"), PyStr("fortnight"), PyInt(0)}

Categories == {"errors", "network", "rage", "resources"}

ErrorRows == [hh : Timestamps, sessions : SessionCounts, names : ErrorNames]
RequestRows ==
    [hh : Timestamps, success_rate : SuccessRates, names : Hosts, source : Paths]
RageRows == [hh : Timestamps, sessions : SessionCounts, names : Hosts]
ResourceRows ==
    [hh : Timestamps, sessions : SessionCounts, cpu_used : CpuValues,
     memory_used : MemoryValues, names : Hosts]

\* ------------------------------------------------------------- utilities
Range(s) == {s[i] : i \in 1..Len(s)}

Returned(v) == [raised |-> FALSE, exc |-> "", value |-> v]
Raised(e) == [raised |-> TRUE, exc |-> e, value |-> <<>>]

\* every response of at most n rows that the queries can return: the rows
\* come back ORDER BY T1.hh DESC
RECURSIVE Descending(_, _)
Descending(rows, n) ==
    IF n = 0 THEN {<<>>}
    ELSE LET shorter == Descending(rows, n - 1)
             longest == {s \in shorter : Len(s) = n - 1}
         IN shorter \cup
            {Append(p[1], p[2]) :
                p \in {q \in longest \X rows :
                          q[1] = <<>> \/ q[2].hh <= q[1][Len(q[1])].hh}}

\* rationals standing for Python floats
RatLess(a, b) == a.num * b.den < b.num * a.den
RatMinus(a, b) == [num |-> a.num * b.den - b.num * a.den, den |-> a.den * b.den]

\* sorted(items, key=lambda k: k[1], reverse=reverse) over (key, value) pairs.
\* Python's sort is stable, also with reverse=True: a pair is placed before
\* the first one it strictly precedes, so equal values keep their order.
Precedes(x, y, reverse) ==
    IF reverse THEN RatLess(y.value, x.value) ELSE RatLess(x.value, y.value)

RECURSIVE InsertStable(_, _, _)
InsertStable(done, x, reverse) ==
    IF done = <<>> THEN <<x>>
    ELSE IF Precedes(x, Head(done), reverse) THEN <<x>> \o done
    ELSE <<Head(done)>> \o InsertStable(Tail(done), x, reverse)

RECURSIVE sorted(_, _)
sorted(items, reverse) ==
    IF items = <<>> THEN <<>>
    ELSE InsertStable(sorted(SubSeq(items, 1, Len(items) - 1), reverse),
                      items[Len(items)], reverse)

RECURSIVE SumSeq(_)
SumSeq(s) == IF s = <<>> THEN 0 ELSE Head(s) + SumSeq(Tail(s))

\* table[table[:, col] == n]: the rows whose cell in column col equals n
Matching(table, col, n) == SelectSeq(table, LAMBDA r : r[col] = n)

\* table[:, col]
Column(table, col) == [i \in 1..Len(table) |-> table[i][col]]

\* ------------------------------------------------ __handle_timestep
\* The bucketing function is kept as its name and its interval argument (0
\* where the f-string has none); steps is the bucket width in seconds.
handle_timestep(time_step) ==
    IF time_step.type = "str" /\ time_step.s = "hour"
    THEN Returned([function |-> "toStartOfHour", interval |-> 0, steps |-> 3600])
    ELSE IF time_step.type = "str" /\ time_step.s = "day"
    THEN Returned([function |-> "toStartOfDay", interval |-> 0, steps |-> 24 * 3600])
    ELSE IF time_step.type = "str" /\ time_step.s = "week"
    THEN Returned([function |-> "toStartOfWeek", interval |-> 0,
                   steps |-> 7 * 24 * 3600])
    ELSE IF time_step.type # "int"
    THEN Raised("AssertionError")
    ELSE Returned([function |-> "toStartOfInterval", interval |-> time_step.n,
                   steps |-> time_step.n * 60])

\* ------------------------------------------------- __get_two_values
EmptySplit ==
    [table_hh1 |-> <<>>, table_hh2 |-> <<>>, hh_vals |-> <<>>,
     names_hh1 |-> <<>>, names_hh2 |-> <<>>]

\* the break taken one timestamp too early
ScanStopsAfterOne(hh_vals, t) == t \notin Range(hh_vals) /\ Len(hh_vals) = 1

\* the break: the row's timestamp is new and two timestamps are already held
ScanStops(hh_vals, t) == t \notin Range(hh_vals) /\ Len(hh_vals) = 2

\* names.append(k) unless k is already in names
AppendNew(names, k) == IF k \in Range(names) THEN names ELSE Append(names, k)

\* the body of the loop for a row e that does not break it
ScanRow(acc, e, time_index, name_index) ==
    LET hh_vals == IF e[time_index] \notin Range(acc.hh_vals)
                   THEN Append(acc.hh_vals, e[time_index])
                   ELSE acc.hh_vals
    IN IF Len(hh_vals) = 1
       THEN [acc EXCEPT !.hh_vals = hh_vals,
                        !.table_hh1 = Append(@, e),
                        !.names_hh1 = AppendNew(@, e[name_index])]
       ELSE IF Len(hh_vals) = 2
       THEN [acc EXCEPT !.hh_vals = hh_vals,
                        !.table_hh2 = Append(@, e),
                        !.names_hh2 = AppendNew(@, e[name_index])]
       ELSE [acc EXCEPT !.hh_vals = hh_vals]

RECURSIVE ScanFrom(_, _, _, _, _)
ScanFrom(table, i, acc, time_index, name_index) ==
    IF i > Len(table) THEN acc
    ELSE IF ScanStops(acc.hh_vals, table[i][time_index]) THEN acc
    ELSE ScanFrom(table, i + 1, ScanRow(acc, table[i], time_index, name_index),
                  time_index, name_index)

\* response[0] of an empty response raises IndexError before the scan
get_two_values(response, time_index, name_index) ==
    IF response = <<>> THEN Raised("IndexError")
    ELSE Returned(ScanFrom(response, 1, EmptySplit, time_index, name_index))

\* ------------------------------------------- new and common keys
\* the comprehension with the two periods exchanged
NewKeysOfLastPeriod(this_period, last_period) ==
    SelectSeq(last_period, LAMBDA x : x \notin Range(this_period))

NewKeys(this_period, last_period) ==
    SelectSeq(this_period, LAMBDA x : x \notin Range(last_period))

CommonKeys(this_period, new) ==
    SelectSeq(this_period, LAMBDA x : x \notin Range(new))

\* ------------------------------------- query_most_errors_by_period
\* a[:, col].sum() - b[:, col].sum() over the cells of an object array: the
\* sum of int cells is an int; the sum of str cells is their concatenation,
\* and str - str raises TypeError
ColumnSumDifference(a, b, col) ==
    IF col \in {"sessions", "success_rate"}
    THEN Returned(SumSeq(Column(a, col)) - SumSeq(Column(b, col)))
    ELSE Raised("TypeError")

\* the column summed for the increase of a common error
IncreaseColumn == "names"

most_errors_rank(split, new_errors, common_errors) ==
    LET table_hh1 == split.table_hh1
        table_hh2 == split.table_hh2
        this_period_errors == split.names_hh1
        total == SumSeq(Column(table_hh1, "sessions"))
        percentage_errors ==
            [i \in 1..Len(this_period_errors) |->
                [key |-> this_period_errors[i],
                 value |-> [num |-> SumSeq(Column(
                                Matching(table_hh1, "names", this_period_errors[i]),
                                "sessions")),
                            den |-> total]]]
        difference(n) ==
            ColumnSumDifference(Matching(table_hh1, "names", n),
                                Matching(table_hh2, "names", n), IncreaseColumn)
        error_increase ==
            [i \in 1..Len(common_errors) |->
                [key |-> common_errors[i],
                 value |-> [num |-> difference(common_errors[i]).value, den |-> 1]]]
    IN IF this_period_errors # <<>> /\ total = 0
       THEN Raised("ZeroDivisionError")
       ELSE IF \E i \in 1..Len(common_errors) : difference(common_errors[i]).raised
       THEN Raised(difference(common_errors[1]).exc)
       ELSE Returned([type |-> "dict",
                      ratio |-> sorted(percentage_errors, TRUE),
                      increase |-> sorted(error_increase, TRUE),
                      new_events |-> new_errors])

query_most_errors_by_period(time_step, res) ==
    LET resolved == handle_timestep(time_step)
        split == get_two_values(res, "hh", "names")
    IN IF resolved.raised THEN resolved
       ELSE IF split.raised THEN split
       ELSE LET new_errors == NewKeys(split.value.names_hh1, split.value.names_hh2)
            IN most_errors_rank(split.value, new_errors,
                                CommonKeys(split.value.names_hh1, new_errors))

\* ---------------------------------------- query_requests_by_period
Mean(rows, col) == [num |-> SumSeq(Column(rows, col)), den |-> Len(rows)]

\* d1_tmp is bound only by the loop over the common names: after the loop it
\* holds the current rows of the last common name, and with no common name
\* reading it raises UnboundLocalError.  argsort of at most MaxRows cells is
\* an insertion sort, modelled as the stable sort.
requests_rank(split, new_hosts, common_names) ==
    LET table_hh1 == split.table_hh1
        table_hh2 == split.table_hh2
        d1(n) == Matching(table_hh1, "source", n)
        d2(n) == Matching(table_hh2, "source", n)
        delta_success ==
            [i \in 1..Len(common_names) |->
                [key |-> common_names[i],
                 value |-> RatMinus(Mean(d1(common_names[i]), "success_rate"),
                                    Mean(d2(common_names[i]), "success_rate"))]]
    IN IF common_names = <<>>
       THEN Raised("UnboundLocalError")
       ELSE LET d1_tmp == d1(common_names[Len(common_names)])
                rates == [i \in 1..Len(d1_tmp) |->
                            [key |-> <<d1_tmp[i].names, d1_tmp[i].source>>,
                             value |-> [num |-> d1_tmp[i].success_rate, den |-> 1]]]
            IN Returned([type |-> "dict",
                         ratio |-> sorted(rates, FALSE),
                         increase |-> sorted(delta_success, FALSE),
                         new_events |-> new_hosts])

query_requests_by_period(time_step, res) ==
    LET resolved == handle_timestep(time_step)
        split == get_two_values(res, "hh", "source")
    IN IF resolved.raised THEN resolved
       ELSE IF split.raised THEN split
       ELSE LET new_hosts == NewKeys(split.value.names_hh1, split.value.names_hh2)
            IN requests_rank(split.value, new_hosts,
                             CommonKeys(split.value.names_hh1, new_hosts))

\* ------------- query_click_rage_by_period, query_cpu_memory_by_period
\* both return the response of the query: the comparison after 'return res'
\* is never run
query_click_rage_by_period(time_step, res) ==
    LET resolved == handle_timestep(time_step)
    IN IF resolved.raised THEN resolved
       ELSE Returned([type |-> "list", rows |-> res])

query_cpu_memory_by_period(time_step, res) ==
    LET resolved == handle_timestep(time_step)
    IN IF resolved.raised THEN resolved
       ELSE Returned([type |-> "list", rows |-> res])

\* ------------------------------------------------------------- state
VARIABLES
    pc,              \* position of the call in progress
    analytic,        \* "errors" / "network": the analytic called on its own
    time_step,       \* the time_step argument
    resolved,        \* function, steps = __handle_timestep(time_step)
    res,             \* the rows conn.execute returned
    split,           \* what __get_two_values returned
    new_keys,        \* new_errors / new_hosts
    common_keys,     \* common_errors / common_names
    result,          \* the value the analytic returned
    exception,       \* the exception that left the call, "" if none
    selectedEvents,  \* fetch_selected: the categories asked for
    output,          \* fetch_selected: the report being built
    attempted,       \* fetch_selected: the categories whose query was called
    failed           \* fetch_selected: the category whose query raised, "" if none

vars ==
    <<pc, analytic, time_step, resolved, res, split, new_keys, common_keys,
      result, exception, selectedEvents, output, attempted, failed>>

analyticVars == <<resolved, res, split, new_keys, common_keys, result>>
fetchVars == <<selectedEvents, output, attempted, failed>>

NoValue == <<>>
EmptyReport == [c \in {} |-> NoValue]

NameIndex(a) == IF a = "errors" THEN "names" ELSE "source"
Responses(a) ==
    IF a = "errors" THEN Descending(ErrorRows, MaxRows)
    ELSE Descending(RequestRows, MaxRows)

InitAnalytic(a) ==
    /\ pc = "start"
    /\ analytic = a
    /\ time_step \in TimeSteps
    /\ resolved = NoValue
    /\ res = <<>>
    /\ split = EmptySplit
    /\ new_keys = <<>>
    /\ common_keys = <<>>
    /\ result = NoValue
    /\ exception = ""
    /\ selectedEvents = {}
    /\ output = EmptyReport
    /\ attempted = {}
    /\ failed = ""

\* one call of query_most_errors_by_period, as the module's __main__ makes it
Init == InitAnalytic("errors")

\* one call of query_requests_by_period
InitNetwork == InitAnalytic("network")

\* -------------------------------------- the steps of an analytic call
\* function, steps = __handle_timestep(time_step)
ResolveTimestep ==
    /\ pc = "start"
    /\ LET r == handle_timestep(time_step)
       IN IF r.raised
          THEN /\ pc' = "raised"
               /\ exception' = r.exc
               /\ UNCHANGED resolved
          ELSE /\ pc' = "query"
               /\ resolved' = r.value
               /\ UNCHANGED exception
    /\ UNCHANGED <<analytic, time_step, res, split, new_keys, common_keys, result>>
    /\ UNCHANGED fetchVars

\* res = conn.execute(query=query), then
\* table_hh1, table_hh2, columns, this_period, last_period = __get_two_values(res, ...)
Query ==
    /\ pc = "query"
    /\ \E r \in Responses(analytic) :
          /\ res' = r
          /\ LET s == get_two_values(r, "hh", NameIndex(analytic))
             IN IF s.raised
                THEN /\ pc' = "raised"
                     /\ exception' = s.exc
                     /\ UNCHANGED split
                ELSE /\ pc' = "compare"
                     /\ split' = s.value
                     /\ UNCHANGED exception
    /\ UNCHANGED <<analytic, time_step, resolved, new_keys, common_keys, result>>
    /\ UNCHANGED fetchVars

\* the rest of the analytic: the two list comprehensions that classify the
\* keys of the current period, then the ratio, the increase and the return
Compare ==
    /\ pc = "compare"
    /\ new_keys' = NewKeys(split.names_hh1, split.names_hh2)
    /\ common_keys' = CommonKeys(split.names_hh1, new_keys')
    /\ LET r == IF analytic = "errors"
                THEN most_errors_rank(split, new_keys', common_keys')
                ELSE requests_rank(split, new_keys', common_keys')
       IN IF r.raised
          THEN /\ pc' = "raised"
               /\ exception' = r.exc
               /\ UNCHANGED result
          ELSE /\ pc' = "done"
               /\ result' = r.value
               /\ UNCHANGED exception
    /\ UNCHANGED <<analytic, time_step, resolved, res, split>>
    /\ UNCHANGED fetchVars

Next == ResolveTimestep \/ Query \/ Compare

Spec == Init /\ [][Next]_vars

SpecNetwork == InitNetwork /\ [][Next]_vars

\* --------------------------------------------------- fetch_selected
InitFetch ==
    /\ pc = "fetch"
    /\ analytic = "fetch"
    /\ time_step \in FetchTimeSteps
    /\ resolved = NoValue
    /\ res = <<>>
    /\ split = EmptySplit
    /\ new_keys = <<>>
    /\ common_keys = <<>>
    /\ result = NoValue
    /\ exception = ""
    /\ selectedEvents \in SUBSET Categories
    /\ output = EmptyReport
    /\ attempted = {}
    /\ failed = ""

\* assert len(selectedEvents) > 0; output = {}
FetchAssert ==
    /\ pc = "fetch"
    /\ IF selectedEvents = {}
       THEN pc' = "raised" /\ exception' = "AssertionError"
       ELSE pc' = "errors" /\ UNCHANGED exception
    /\ UNCHANGED <<analytic, time_step, selectedEvents, output, attempted, failed>>
    /\ UNCHANGED analyticVars

\* if category in selectedEvents: output[category] = r.  An exception raised
\* by the query function is caught nowhere: it leaves fetch_selected, output
\* is dropped with the frame, and the categories after it are not run.
FetchCategory(category, r, next) ==
    IF category \notin selectedEvents
    THEN /\ pc' = next
         /\ UNCHANGED <<output, attempted, failed, exception>>
    ELSE /\ attempted' = attempted \cup {category}
         /\ IF r.raised
            THEN /\ pc' = "raised"
                 /\ exception' = r.exc
                 /\ failed' = category
                 /\ UNCHANGED output
            ELSE /\ pc' = next
                 /\ output' = output @@ (category :> r.value)
                 /\ UNCHANGED <<failed, exception>>

FetchErrors ==
    /\ pc = "errors"
    /\ \E r \in Descending(ErrorRows, MaxFetchRows) :
          FetchCategory("errors", query_most_errors_by_period(time_step, r), "network")
    /\ UNCHANGED <<analytic, time_step, selectedEvents>>
    /\ UNCHANGED analyticVars

FetchNetwork ==
    /\ pc = "network"
    /\ \E r \in Descending(RequestRows, MaxFetchRows) :
          FetchCategory("network", query_requests_by_period(time_step, r), "rage")
    /\ UNCHANGED <<analytic, time_step, selectedEvents>>
    /\ UNCHANGED analyticVars

FetchRage ==
    /\ pc = "rage"
    /\ \E r \in Descending(RageRows, MaxRawRows) :
          FetchCategory("rage", query_click_rage_by_period(time_step, r), "resources")
    /\ UNCHANGED <<analytic, time_step, selectedEvents>>
    /\ UNCHANGED analyticVars

FetchResources ==
    /\ pc = "resources"
    /\ \E r \in Descending(ResourceRows, MaxRawRows) :
          FetchCategory("resources", query_cpu_memory_by_period(time_step, r), "return")
    /\ UNCHANGED <<analytic, time_step, selectedEvents>>
    /\ UNCHANGED analyticVars

\* return output
FetchReturn ==
    /\ pc = "return"
    /\ pc' = "done"
    /\ UNCHANGED <<analytic, time_step, exception>>
    /\ UNCHANGED fetchVars
    /\ UNCHANGED analyticVars

NextFetch ==
    FetchAssert \/ FetchErrors \/ FetchNetwork \/ FetchRage \/ FetchResources
    \/ FetchReturn

SpecFetch == InitFetch /\ [][NextFetch]_vars

\* ------------------------------------------------------- properties
\* the distinct bucket timestamps of the response
Times(rows) == {rows[i].hh : i \in 1..Len(rows)}

\* the position of the first row that carries a third distinct timestamp,
\* Len(rows) + 1 when there is none
FirstThird(rows) ==
    LET third(i) == Cardinality(Times(SubSeq(rows, 1, i))) >= 3
    IN IF \E i \in 1..Len(rows) : third(i)
       THEN CHOOSE i \in 1..Len(rows) : third(i) /\ \A j \in 1..(i - 1) : ~third(j)
       ELSE Len(rows) + 1

\* the second distinct timestamp of a response ordered by hh descending
SecondTime(rows) == CHOOSE t \in Times(rows) \ {rows[1].hh} :
                        \A u \in Times(rows) \ {rows[1].hh} : u <= t

\* the time steps the specification admits
ValidTimeStep(ts) ==
    \/ ts.type = "str" /\ ts.s \in {"hour", "day", "week"}
    \/ ts.type = "int" /\ ts.n > 0

\* the exceptions raised after __get_two_values has returned
RankExceptions == {"ZeroDivisionError", "TypeError", "UnboundLocalError"}

\* __get_two_values has been called in the call in progress
SplitCalled == pc \in {"compare", "done"} \/ (pc = "raised" /\ exception # "AssertionError")

\* __get_two_values has returned in the call in progress
SplitReturned == SplitCalled /\ exception # "IndexError"

\* the analytic has run to its end: it returned or its comparison raised
CompareEnded == pc = "done" \/ (pc = "raised" /\ exception \in RankExceptions)

\* C1: for a response ordered by bucket timestamp descending, the split
\* returns as current rows exactly the rows of the first distinct timestamp
\* and as previous rows exactly the rows of the second one, both in input
\* order; the two together are the rows before the first row of a third
\* timestamp, so neither that row nor any row after it is in either.
C1_SplitTakesTwoMostRecentPeriods ==
    SplitReturned =>
        /\ split.table_hh1 = SelectSeq(res, LAMBDA r : r.hh = res[1].hh)
        /\ split.table_hh2 =
              IF Cardinality(Times(res)) < 2 THEN <<>>
              ELSE SelectSeq(res, LAMBDA r : r.hh = SecondTime(res))
        /\ split.table_hh1 \o split.table_hh2 = SubSeq(res, 1, FirstThird(res) - 1)

\* a response with three timestamps, two current rows and a previous row
C1_Witness ==
    /\ SplitReturned
    /\ ValidTimeStep(time_step)
    /\ Cardinality(Times(res)) = 3
    /\ Len(split.table_hh1) = 2
    /\ Len(split.table_hh2) = 1
    /\ Len(res) = 4

\* C2: new keys are exactly the current keys absent from the previous keys,
\* common keys exactly the current keys present in them, each in the order
\* of the current keys; they are disjoint, together hold every current key
\* once, and hold no key of the previous period only.
C2_NewAndCommonPartitionCurrentKeys ==
    CompareEnded =>
        LET cur == split.names_hh1
            prev == split.names_hh2
        IN /\ Range(new_keys) = Range(cur) \ Range(prev)
           /\ Range(common_keys) = Range(cur) \cap Range(prev)
           /\ new_keys = SelectSeq(cur, LAMBDA x : x \in Range(new_keys))
           /\ common_keys = SelectSeq(cur, LAMBDA x : x \in Range(common_keys))
           /\ Range(new_keys) \cap Range(common_keys) = {}
           /\ Len(new_keys) + Len(common_keys) = Len(cur)

\* a new key, a common key and a key of the previous period only
C2_Witness ==
    /\ CompareEnded
    /\ ValidTimeStep(time_step)
    /\ new_keys # <<>>
    /\ common_keys # <<>>
    /\ Range(split.names_hh2) \ Range(split.names_hh1) # {}

\* the sessions of rows' rows named n
SessionsOf(rows, n) == SumSeq(Column(Matching(rows, "names", n), "sessions"))

\* C3: in the errors analytic, 'increase' holds one (key, delta) entry for
\* every common error name, delta being its session count over the current
\* rows minus its session count over the previous rows, ordered by delta
\* descending.  (Stated for a current period with sessions, where the ratio
\* is defined.)
C3_IncreaseIsSessionDelta ==
    (CompareEnded /\ ValidTimeStep(time_step) /\ SumSeq(Column(split.table_hh1, "sessions")) # 0) =>
        /\ pc = "done"
        /\ Len(result.increase) = Len(common_keys)
        /\ \A n \in Range(common_keys) :
              \E i \in 1..Len(result.increase) :
                 /\ result.increase[i].key = n
                 /\ result.increase[i].value =
                       [num |-> SessionsOf(split.table_hh1, n)
                                - SessionsOf(split.table_hh2, n),
                        den |-> 1]
        /\ \A i, j \in 1..Len(result.increase) :
              i < j => ~RatLess(result.increase[i].value, result.increase[j].value)

\* C7: time-step resolution fails for every input that is neither one of
\* the tokens 'hour', 'day', 'week' nor a strictly positive integer.
C7_InvalidTimeStepFails ==
    (pc # "start" /\ ~ValidTimeStep(time_step)) =>
        (pc = "raised" /\ exception = "AssertionError")

\* C8: in the errors analytic, when the session count over the current rows
\* is 0 the ratio ends in the NoDataInPeriod failure and no division is made.
C8_ZeroTotalIsNoDataInPeriod ==
    (CompareEnded /\ ValidTimeStep(time_step) /\ SumSeq(Column(split.table_hh1, "sessions")) = 0) =>
        (pc = "raised" /\ exception = "NoDataInPeriod")

\* C9: for a response with fewer than two distinct bucket timestamps the
\* split returns without error with previous rows and keys empty; for the
\* empty response it returns with current and previous rows and keys empty.
C9_FewerThanTwoPeriodsIsNoError ==
    (SplitCalled /\ ValidTimeStep(time_step) /\ Cardinality(Times(res)) < 2) =>
        /\ SplitReturned
        /\ split.table_hh2 = <<>>
        /\ split.names_hh2 = <<>>
        /\ res = <<>> => (split.table_hh1 = <<>> /\ split.names_hh1 = <<>>)

\* C4: in the network analytic, 'ratio' holds one entry for every row of
\* the current period, ordered ascending by the row's success rate.  (Stated
\* for periods that share a key; C10 is the case where they share none.)
C4_RatioHoldsEveryCurrentRow ==
    (CompareEnded /\ ValidTimeStep(time_step) /\ common_keys # <<>>) =>
        /\ pc = "done"
        /\ Len(result.ratio) = Len(split.table_hh1)
        /\ \A r \in Range(split.table_hh1) :
              \E i \in 1..Len(result.ratio) :
                 /\ result.ratio[i].key = <<r.names, r.source>>
                 /\ result.ratio[i].value = [num |-> r.success_rate, den |-> 1]
        /\ \A i, j \in 1..Len(result.ratio) :
              i < j => ~RatLess(result.ratio[j].value, result.ratio[i].value)

\* C10: when the previous period is missing or the two periods share no
\* key, the analytic completes and returns a result whose 'increase' holds
\* no numeric delta.
C10_NoCommonKeyGivesEmptyIncrease ==
    (CompareEnded /\ ValidTimeStep(time_step)
       /\ Range(split.names_hh1) \cap Range(split.names_hh2) = {}) =>
        (pc = "done" /\ result.increase = <<>>)

\* the keys of the comparison result of a category
ResultKeys(category) ==
    IF category = "resources" THEN {"type", "cpu_increase", "memory_increase"}
    ELSE {"type", "ratio", "increase", "new_events"}

\* C5: the report fetch_selected returns has exactly one entry per selected
\* category, and that entry is a comparison result, never the rows the data
\* source returned.
C5_EveryEntryIsAComparison ==
    (pc = "done" /\ ValidTimeStep(time_step)) =>
        /\ DOMAIN output = selectedEvents
        /\ \A c \in selectedEvents :
              /\ output[c].type = "dict"
              /\ DOMAIN output[c] = ResultKeys(c)

\* C6: when the computation of one selected category fails, every other
\* selected category is still attempted and the call returns a report with
\* the results of the categories that succeeded.
C6_FailureOfOneCategoryIsIsolated ==
    (failed # "" /\ ValidTimeStep(time_step) /\ selectedEvents # {failed}) =>
        /\ pc # "raised"
        /\ pc = "done" =>
              /\ attempted = selectedEvents
              /\ selectedEvents \ {failed} \subseteq DOMAIN output

====
